---- MODULE Spec2Model ----
(***************************************************************************)
(* Recognition loop of the mobile client (src/mobile/app/index.tsx).       *)
(*                                                                         *)
(* The App component polls the camera with setInterval; every tick calls   *)
(* the async function captureAndSendFrame, whose body suspends at four     *)
(* awaits (takePictureAsync, manipulateAsync, fetch, response.json) and    *)
(* then, in one synchronous block, filters the first detected person by    *)
(* similarity and by the per-name cooldown kept in lastDetectionTime.      *)
(*                                                                         *)
(* Time is Date.now() in milliseconds.  Similarities are in hundredths     *)
(* (0.6 is 60).                                                            *)
(*                                                                         *)
(* The person store and the matcher of the recognition backend have no     *)
(* code in src/; their sections follow the design document (spec.md 3,     *)
(* 4.2, 4.3 and 5).                                                        *)
(*                                                                         *)
(* The last sections are the bottom sheet of the mobile client, and two    *)
(* parts of the web frontend: the family helpers of lib/firebase and the   *)
(* FamilyMembersClient component.  Each part has its own variables and     *)
(* its own specification; the actions of one part leave the others alone.  *)
(***************************************************************************)
EXTENDS Integers, Sequences, FiniteSets, TLC

VARIABLES
    session,            \* polling effect: "Idle" | "Running" | "Stopped"
    cameraRef,          \* cameraRef.current is set
    now,                \* Date.now()
    sinceFire,          \* ms since the interval timer was armed, up to CAPTURE_INTERVAL
    cycles,             \* cycles[i]: position of the i-th captureAndSendFrame call
    lastDetectionTime,  \* lastDetectionTime.current: name -> ms
    detectedPerson,     \* React state: <<>> is null, <<p>> a person
    log,                \* history: what each decoded detect response led to
    pollingEffect,      \* what React last did with the polling effect
    intervals,          \* setInterval calls made so far
    isCardVisible,      \* React state isCardVisible
    slideUp,            \* slideUp.value at rest: 0 sheet hidden, 1 sheet open
    dismissals,         \* history: the person and the time of each dismissing swipe
    store,              \* PersonStore: the person records, in insertion order
    outcome,            \* how the last PersonStore operation ended
    evicted,            \* <<e>>: the last addEmbedding found the record full, e its oldest
    snap,               \* the snapshot list() gave to the resolve in progress
    query,              \* the query embedding of the resolve in progress
    examined,           \* records of the snapshot the resolve has examined
    best,               \* its best candidate so far: <<>> or <<[id, similarity]>>
    matcher,            \* resolve is "idle", "running" or "done"
    resolved            \* what resolve returned: <<>> is None

VARIABLES
    inodes,             \* backing storage: the records written to each file body
    file,               \* the file body the store's path names
    temp,               \* the file body persist() is writing, 0 when none
    pending,            \* the snapshot persist() is writing
    reader,             \* load() is "idle", "reading" or "done"
    opened,             \* the file body load() opened
    loaded,             \* the records load() has read
    committed,          \* history: the store last persisted completely
    candidates          \* history: the complete stores on disk during this load()

VARIABLES
    family,             \* the family document in Firestore: <<>> missing, <<doc>> present
    calls,              \* calls[c]: the call of caller c to a family helper
    added,              \* history: the user ids of the completed addMemberToFamily calls
    history             \* history: the last two completed calls, oldest first

VARIABLES
    loading,            \* React state loading of FamilyMembersClient
    error,              \* React state error: <<>> is null, <<message>> a message
    familyMembers,      \* React state familyMembers
    onLoaded,           \* whether the parent passes the onLoaded prop
    fetches,            \* fetches[f]: the f-th getAllFamilyMembers() call of the effect
    loadedCalls         \* history: the arguments of the onLoaded calls, in order

cardVars == <<isCardVisible, slideUp, dismissals>>

appVars == <<session, cameraRef, now, sinceFire, cycles, lastDetectionTime,
             detectedPerson, log, pollingEffect, intervals, cardVars>>

storeVars == <<store, outcome, evicted, snap, query, examined, best, matcher, resolved>>

diskVars == <<inodes, file, temp, pending, reader, opened, loaded, committed, candidates>>

\* What the actions of the mobile client, of the person store and of its
\* backing storage leave alone.
familyVars == <<family, calls, added, history>>

clientVars == <<loading, error, familyMembers, onLoaded, fetches, loadedCalls>>

restOfApp == <<storeVars, diskVars, familyVars, clientVars>>

restOfStore == <<appVars, diskVars, familyVars, clientVars>>

restOfDisk == <<appVars, familyVars, clientVars>>

restOfFamily == <<appVars, storeVars, diskVars, clientVars>>

restOfClient == <<appVars, storeVars, diskVars, familyVars>>

vars == <<appVars, storeVars, diskVars, familyVars, clientVars>>

----------------------------------------------------------------------------
(* Program constants *)

CAPTURE_INTERVAL == 2000
COOLDOWN == 30000
SIM_THRESHOLD == 60

profileData == {"Daniel", "Michelle"}

----------------------------------------------------------------------------
(* Bounds of the model *)

StartTime == 100000      \* Date.now() when the component is constructed
MaxElapsed == 48000      \* the clock is observed up to StartTime + MaxElapsed
MaxTicks == 3            \* interval ticks fired

\* Names the detector may return (one in profileData, one not), similarities
\* below, at and above the threshold, and the steps of the clock: two
\* detections can be less than, exactly, or more than COOLDOWN ms apart
\* (15000 or 16000; 30000; 31000 or 32000).
Names == {"Daniel", "Bob"}
Sims == {40, 60, 75}
Deltas == {15000, 16000}

Person == [name : Names, similarity : Sims]

PersonSeqs ==
    {<<>>} \cup {<<p>> : p \in Person} \cup {<<p, q>> : p \in Person, q \in Person}

\* Decoded bodies of the detect response: JSON null, an object without a
\* persons field, an object with a persons array.
Results ==
    {[json |-> "null", persons |-> <<>>], [json |-> "noPersons", persons |-> <<>>]}
        \cup {[json |-> "persons", persons |-> s] : s \in PersonSeqs}

AwaitPoints == {"takePicture", "manipulate", "fetch", "json"}

\* How a call of captureAndSendFrame ended: the three ways it returns, and
\* the rejection of its promise.
EndPoints == {"noCamera", "noPhoto", "done", "rejected"}

InFlight == {c \in DOMAIN cycles : cycles[c] \in AwaitPoints}

\* The setDetectedPerson(person) calls made so far.
emitted == {l \in log : l.shown}

----------------------------------------------------------------------------
(* canShowPerson and the filter of captureAndSendFrame *)

LastTimeDefaultsToNow(personName) ==
    IF personName \in DOMAIN lastDetectionTime
        THEN lastDetectionTime[personName]
        ELSE now

\* lastDetectionTime.current[personName] || 0
LastTime(personName) ==
    IF personName \in DOMAIN lastDetectionTime
        THEN lastDetectionTime[personName]
        ELSE 0

canShowPersonInclusive(personName) ==
    now - LastTime(personName) >= COOLDOWN

canShowPersonSeconds(personName) ==
    now - LastTime(personName) > COOLDOWN \div 1000

canShowPerson(personName) ==
    now - LastTime(personName) > COOLDOWN

AboveThresholdInclusive(similarity) ==
    similarity >= SIM_THRESHOLD

AboveThresholdInverted(similarity) ==
    similarity < SIM_THRESHOLD

AboveThreshold(similarity) ==
    similarity > SIM_THRESHOLD

HasPersons(result) ==
    result.json = "persons" /\ Len(result.persons) > 0

\* The person of a result that passes the similarity check with the highest
\* similarity, the first of them; the first person when none passes.
CandidateBest(result) ==
    LET passing == {i \in DOMAIN result.persons :
                        result.persons[i].similarity > SIM_THRESHOLD}
        top == {i \in passing : \A j \in passing :
                        result.persons[i].similarity >= result.persons[j].similarity}
    IN  IF passing = {}
            THEN result.persons[1]
            ELSE result.persons[CHOOSE i \in top : \A j \in top : i <= j]

\* result.persons[0]: the only person of a result that is looked at.
Candidate(result) ==
    result.persons[1]

Accepts(result) ==
    /\ HasPersons(result)
    /\ AboveThreshold(Candidate(result).similarity)
    /\ canShowPerson(Candidate(result).name)

RecordLost(map, name, t) ==
    map

RecordFirst(map, name, t) ==
    [n \in DOMAIN map \cup {name} |-> IF n \in DOMAIN map THEN map[n] ELSE t]

RecordGlobal(map, name, t) ==
    [n \in Names |-> t]

Record(map, name, t) ==
    [n \in DOMAIN map \cup {name} |-> IF n = name THEN t ELSE map[n]]

\* Whether a person after the first of a response that is not accepted is
\* above the threshold and out of its cooldown (the log keeps it; the code
\* never looks).
LaterPasses(result) ==
    \E i \in 2..Len(result.persons) :
        /\ AboveThreshold(result.persons[i].similarity)
        /\ canShowPerson(result.persons[i].name)

\* The person of the response the cycle looks at, <<>> when it has none.
Considered(result) ==
    IF HasPersons(result) THEN <<Candidate(result)>> ELSE <<>>

\* The first person of the response as it arrived, <<>> when it has none.
FirstPerson(result) ==
    IF HasPersons(result) THEN <<result.persons[1]>> ELSE <<>>

----------------------------------------------------------------------------
AppInit ==
    /\ session = "Idle"
    /\ cameraRef = FALSE
    /\ now = StartTime
    /\ sinceFire = 0
    /\ cycles = <<>>
    /\ lastDetectionTime = <<>>
    /\ detectedPerson = <<>>
    /\ log = {}
    /\ pollingEffect = "none"
    /\ intervals = 0
    /\ isCardVisible = FALSE
    /\ slideUp = 0
    /\ dismissals = {}

\* An empty store and no resolve in progress.
StoreInit ==
    /\ store = <<>>
    /\ outcome = "none"
    /\ evicted = <<>>
    /\ snap = <<>>
    /\ query = <<>>
    /\ examined = 0
    /\ best = <<>>
    /\ matcher = "idle"
    /\ resolved = <<>>

\* The file bodies the backing storage can hold at a time: the one the path
\* names, the one being written and one a loader still has open.
Inodes == {1, 2, 3}

DiskInit ==
    /\ inodes = [i \in Inodes |-> <<>>]
    /\ file = 1
    /\ temp = 0
    /\ pending = <<>>
    /\ reader = "idle"
    /\ opened = 0
    /\ loaded = <<>>
    /\ committed = <<>>
    /\ candidates = {}

\* A caller that has made no call.
IdleCall ==
    [op |-> "none", user |-> "", pc |-> "idle", before |-> <<>>,
     updatedMembers |-> <<>>, wrote |-> FALSE]

Callers == {1, 2}

FamilyInit ==
    /\ family = <<>>
    /\ calls = [c \in Callers |-> IdleCall]
    /\ added = {}
    /\ history = <<>>

\* The getAllFamilyMembers() calls one mounted component can make.
FetchIds == {1, 2, 3}

\* A call of getAllFamilyMembers() the effect has not made.
NoFetch == [state |-> "none", members |-> <<>>]

\* useState([]), useState(true), useState(null)
ClientState ==
    /\ familyMembers = <<>>
    /\ loading = TRUE
    /\ error = <<>>
    /\ fetches = [f \in FetchIds |-> NoFetch]
    /\ loadedCalls = <<>>

\* <FamilyMembersClient /> as the page renders it, without onLoaded.
ClientInit ==
    /\ ClientState
    /\ onLoaded = FALSE

Init ==
    /\ AppInit
    /\ StoreInit
    /\ DiskInit
    /\ FamilyInit
    /\ ClientInit

\* useEffect(() => { setInterval(captureAndSendFrame, CAPTURE_INTERVAL) ... }, [])
StartPolling ==
    /\ session = "Idle"
    /\ session' = "Running"
    /\ sinceFire' = 0
    /\ pollingEffect' = "run"
    /\ intervals' = intervals + 1
    /\ UNCHANGED <<cameraRef, now, cycles, lastDetectionTime, detectedPerson, log>>
    /\ UNCHANGED cardVars
    /\ UNCHANGED restOfApp

\* Permission granted: CameraView is rendered and fills cameraRef.
CameraMount ==
    /\ session # "Stopped"
    /\ ~cameraRef
    /\ cameraRef' = TRUE
    /\ UNCHANGED <<session, now, sinceFire, cycles, lastDetectionTime, detectedPerson, log,
                 pollingEffect, intervals>>
    /\ UNCHANGED cardVars
    /\ UNCHANGED restOfApp

\* clearInterval(interval): the interval stops firing; clearing an interval
\* that is already cleared does nothing.
ClearIntervalRestarts(s) ==
    IF s = "Running" THEN "Stopped" ELSE "Running"

ClearInterval(s) ==
    IF s = "Running" THEN "Stopped" ELSE s

\* The cleanup of the polling effect: clearInterval(interval); the unmount
\* also clears the camera ref.
StopPolling ==
    /\ session = "Running"
    /\ session' = ClearInterval(session)
    /\ cameraRef' = FALSE
    /\ pollingEffect' = "cleanup"
    /\ UNCHANGED <<now, sinceFire, cycles, lastDetectionTime, detectedPerson, log, intervals>>
    /\ UNCHANGED cardVars
    /\ UNCHANGED restOfApp

\* The timer only compares the time since it was armed with the interval.
Elapse(since, d) ==
    IF since + d >= CAPTURE_INTERVAL THEN CAPTURE_INTERVAL ELSE since + d

Advance(d) ==
    /\ now + d <= StartTime + MaxElapsed
    /\ now' = now + d
    /\ sinceFire' = Elapse(sinceFire, d)
    /\ UNCHANGED <<session, cameraRef, cycles, lastDetectionTime, detectedPerson, log,
                 pollingEffect, intervals>>
    /\ UNCHANGED cardVars
    /\ UNCHANGED restOfApp

TimerNeverCleared ==
    session # "Idle"

\* The interval exists from setInterval until clearInterval.
TimerArmed ==
    session = "Running"

\* The interval fires and calls captureAndSendFrame; the call runs up to its
\* first await, or returns at once when there is no camera.
Tick ==
    /\ TimerArmed
    /\ sinceFire >= CAPTURE_INTERVAL
    /\ Len(cycles) < MaxTicks
    /\ sinceFire' = 0
    /\ cycles' = Append(cycles, IF cameraRef THEN "takePicture" ELSE "noCamera")
    /\ UNCHANGED <<session, cameraRef, now, lastDetectionTime, detectedPerson, log,
                 pollingEffect, intervals>>
    /\ UNCHANGED cardVars
    /\ UNCHANGED restOfApp

AfterPictureUnchecked(photo) ==
    "manipulate"

\* `if (!photo) return`
AfterPicture(photo) ==
    IF photo THEN "manipulate" ELSE "noPhoto"

\* takePictureAsync resolves, with a photo or with nothing.
TakePictureDone(c, photo) ==
    /\ c \in DOMAIN cycles
    /\ cycles[c] = "takePicture"
    /\ cycles' = [cycles EXCEPT ![c] = AfterPicture(photo)]
    /\ UNCHANGED <<session, cameraRef, now, sinceFire, lastDetectionTime, detectedPerson, log,
                 pollingEffect, intervals>>
    /\ UNCHANGED cardVars
    /\ UNCHANGED restOfApp

\* manipulateAsync resolves.
ManipulateDone(c) ==
    /\ c \in DOMAIN cycles
    /\ cycles[c] = "manipulate"
    /\ cycles' = [cycles EXCEPT ![c] = "fetch"]
    /\ UNCHANGED <<session, cameraRef, now, sinceFire, lastDetectionTime, detectedPerson, log,
                 pollingEffect, intervals>>
    /\ UNCHANGED cardVars
    /\ UNCHANGED restOfApp

\* fetch resolves with a response.
FetchDone(c) ==
    /\ c \in DOMAIN cycles
    /\ cycles[c] = "fetch"
    /\ cycles' = [cycles EXCEPT ![c] = "json"]
    /\ UNCHANGED <<session, cameraRef, now, sinceFire, lastDetectionTime, detectedPerson, log,
                 pollingEffect, intervals>>
    /\ UNCHANGED cardVars
    /\ UNCHANGED restOfApp

\* An awaited promise rejects; captureAndSendFrame has no try/catch, so the
\* promise of the call rejects.
AwaitRejects(c) ==
    /\ c \in DOMAIN cycles
    /\ cycles[c] \in AwaitPoints
    /\ cycles' = [cycles EXCEPT ![c] = "rejected"]
    /\ UNCHANGED <<session, cameraRef, now, sinceFire, lastDetectionTime, detectedPerson, log,
                 pollingEffect, intervals>>
    /\ UNCHANGED cardVars
    /\ UNCHANGED restOfApp

\* A state update of an unmounted component is dropped by React.
SetDetectedPerson(person) ==
    IF session = "Stopped" THEN detectedPerson ELSE <<person>>

OpensCardAlways(person, visible) ==
    TRUE

\* The card effect, run after a render in which detectedPerson changed:
\* `if (detectedPerson && !isCardVisible)`, then slideUp.value = 1 and
\* setIsCardVisible(true).
OpensCard(person, visible) ==
    person # <<>> /\ ~visible

\* response.json() resolves with `result`; lines 205-210 run without
\* suspending.  Reading result.persons of null throws.
JsonDone(c, result) ==
    /\ c \in DOMAIN cycles
    /\ cycles[c] = "json"
    /\ IF result.json = "null"
         THEN /\ cycles' = [cycles EXCEPT ![c] = "rejected"]
              /\ UNCHANGED <<lastDetectionTime, detectedPerson, log, cardVars>>
         ELSE IF Accepts(result)
         THEN LET p == Candidate(result)
                  opens == session # "Stopped" /\ OpensCard(<<p>>, isCardVisible)
              IN
              /\ cycles' = [cycles EXCEPT ![c] = "done"]
              /\ detectedPerson' = SetDetectedPerson(p)
              /\ isCardVisible' = (isCardVisible \/ opens)
              /\ slideUp' = IF opens THEN 1 ELSE slideUp
              /\ dismissals' = dismissals
              /\ lastDetectionTime' = Record(lastDetectionTime, p.name, now)
              /\ log' = log \cup {[cycle |-> c, at |-> now, head |-> <<p>>,
                                   first |-> FirstPerson(result),
                                   later |-> FALSE, shown |-> TRUE]}
         ELSE /\ cycles' = [cycles EXCEPT ![c] = "done"]
              /\ log' = log \cup {[cycle |-> c, at |-> now, head |-> Considered(result),
                                   first |-> FirstPerson(result),
                                   later |-> LaterPasses(result), shown |-> FALSE]}
              /\ UNCHANGED <<lastDetectionTime, detectedPerson, cardVars>>
    /\ UNCHANGED <<session, cameraRef, now, sinceFire, pollingEffect, intervals>>
    /\ UNCHANGED restOfApp

Next ==
    \/ StartPolling
    \/ CameraMount
    \/ StopPolling
    \/ \E d \in Deltas : Advance(d)
    \/ Tick
    \/ \E c \in 1..MaxTicks : \E photo \in BOOLEAN : TakePictureDone(c, photo)
    \/ \E c \in 1..MaxTicks : ManipulateDone(c)
    \/ \E c \in 1..MaxTicks : FetchDone(c)
    \/ \E c \in 1..MaxTicks : AwaitRejects(c)
    \/ \E c \in 1..MaxTicks : \E result \in Results : JsonDone(c, result)

Spec == Init /\ [][Next]_vars

----------------------------------------------------------------------------
(* Renders and cleanups after the first: the session asked to start or to  *)
(* stop again                                                              *)

DepsOmitted ==
    TRUE

\* The dependency array of the polling effect is [], which never changes
\* between renders.
DepsChanged ==
    FALSE

\* A state update renders App again while it is mounted.  React runs the
\* polling effect again (its cleanup, then its body) only when its
\* dependencies changed; otherwise it skips it, silently.
Rerender ==
    /\ session = "Running"
    /\ IF DepsChanged
         THEN /\ sinceFire' = 0
              /\ intervals' = intervals + 1
              /\ pollingEffect' = "run"
         ELSE /\ pollingEffect' = "skipped"
              /\ UNCHANGED <<sinceFire, intervals>>
    /\ UNCHANGED <<session, cameraRef, now, cycles, lastDetectionTime, detectedPerson, log>>
    /\ UNCHANGED cardVars
    /\ UNCHANGED restOfApp

\* The cleanup closure `() => clearInterval(interval)` called once more after
\* the effect was cleaned up.
CleanupAgain ==
    /\ session = "Stopped"
    /\ session' = ClearInterval(session)
    /\ pollingEffect' = "cleanupAgain"
    /\ UNCHANGED <<cameraRef, now, sinceFire, cycles, lastDetectionTime, detectedPerson,
                   log, intervals>>
    /\ UNCHANGED cardVars
    /\ UNCHANGED restOfApp

NextLifecycle ==
    \/ Next
    \/ Rerender
    \/ CleanupAgain

SpecLifecycle == Init /\ [][NextLifecycle]_vars

----------------------------------------------------------------------------
(* The recognition loop observed at the instants of the cooldown scenario: *)
(* the clock moves by 9 s or by 22 s, so detections can be 9 s and 31 s    *)
(* after a first one.                                                      *)

ScenarioDeltas == {9000, 22000}

\* The responses of the scenario: no person, or one person above the
\* threshold.
ScenarioResults ==
    {r \in Results :
        \/ r.json = "noPersons"
        \/ Len(r.persons) = 1 /\ r.persons[1].similarity > SIM_THRESHOLD}

NextScenario ==
    \/ StartPolling
    \/ CameraMount
    \/ StopPolling
    \/ \E d \in ScenarioDeltas : Advance(d)
    \/ Tick
    \/ \E c \in 1..MaxTicks : \E photo \in BOOLEAN : TakePictureDone(c, photo)
    \/ \E c \in 1..MaxTicks : ManipulateDone(c)
    \/ \E c \in 1..MaxTicks : FetchDone(c)
    \/ \E c \in 1..MaxTicks : AwaitRejects(c)
    \/ \E c \in 1..MaxTicks : \E result \in ScenarioResults : JsonDone(c, result)

SpecScenario == Init /\ [][NextScenario]_vars

----------------------------------------------------------------------------
(* The bottom sheet: the card effect, the end of a pan gesture on the      *)
(* sheet and what the sheet renders.  The handler of a gesture end runs    *)
(* as one step: its two runOnJS calls reach the JS thread back to back.    *)
(* The responses are those of the scenario; "Bob" is no key of             *)
(* profileData.                                                            *)

SWIPE_THRESHOLD == 50

\* event.translationY at the end of a gesture, in px.
Translations == {30, 50, 80}

DismissesInclusive(translationY) ==
    translationY >= SWIPE_THRESHOLD

\* if (event.translationY > SWIPE_THRESHOLD)
Dismisses(translationY) ==
    translationY > SWIPE_THRESHOLD

\* The sheet can be touched: it rests on screen, or it was swiped away and
\* may still be moving down.
SheetOnScreen ==
    slideUp = 1 \/ dismissals # {}

CardRenderedUnchecked ==
    detectedPerson # <<>>

\* {detectedPerson && profileData[detectedPerson.name] && (<View ...>)}
CardRendered ==
    detectedPerson # <<>> /\ detectedPerson[1].name \in profileData

\* onEnd of the gesture handler, and the card effect when detectedPerson
\* changed to null.
SwipeEnd(translationY) ==
    /\ session = "Running"
    /\ SheetOnScreen
    /\ IF Dismisses(translationY)
         THEN LET opens == detectedPerson # <<>> /\ OpensCard(<<>>, FALSE)
              IN
              /\ slideUp' = IF opens THEN 1 ELSE 0
              /\ isCardVisible' = opens
              /\ detectedPerson' = <<>>
              /\ dismissals' =
                    IF detectedPerson = <<>> THEN dismissals
                    ELSE dismissals \cup {[name |-> detectedPerson[1].name, at |-> now,
                                           last |-> LastTime(detectedPerson[1].name)]}
         ELSE /\ slideUp' = 1
              /\ UNCHANGED <<isCardVisible, detectedPerson, dismissals>>
    /\ UNCHANGED <<session, cameraRef, now, sinceFire, cycles, lastDetectionTime, log,
                 pollingEffect, intervals>>
    /\ UNCHANGED restOfApp

NextCard ==
    \/ StartPolling
    \/ CameraMount
    \/ StopPolling
    \/ \E d \in Deltas : Advance(d)
    \/ Tick
    \/ \E c \in 1..MaxTicks : \E photo \in BOOLEAN : TakePictureDone(c, photo)
    \/ \E c \in 1..MaxTicks : ManipulateDone(c)
    \/ \E c \in 1..MaxTicks : FetchDone(c)
    \/ \E c \in 1..MaxTicks : AwaitRejects(c)
    \/ \E c \in 1..MaxTicks : \E result \in ScenarioResults : JsonDone(c, result)
    \/ \E translationY \in Translations : SwipeEnd(translationY)

SpecCard == Init /\ [][NextCard]_vars

----------------------------------------------------------------------------
(* Matcher: resolve(query, store_snapshot)                                 *)
(*                                                                         *)
(* An embedding is a point on a line and the similarity of two embeddings  *)
(* falls with their distance, in hundredths: 100, 80, 60, 40.  A person id *)
(* is a string, written as the sequence of its character codes.            *)

D == 2

similarity_threshold == 60

Points == {0, 2, 3}

EmbeddingVector == [dim : {D}, at : Points]

Ids == {<<1>>, <<1, 2>>, <<2>>}

EmbeddingSeqs ==
    {<<e>> : e \in EmbeddingVector}
        \cup {<<e, f>> : e \in EmbeddingVector, f \in EmbeddingVector}

MatcherRecords == [id : Ids, name : {"Ann"}, embeddings : EmbeddingSeqs]

\* Snapshots of up to three persons with distinct ids, in every order.
Snapshots ==
    {<<>>} \cup {<<r>> : r \in MatcherRecords}
        \cup {t \in {<<r1, r2>> : r1 \in MatcherRecords, r2 \in MatcherRecords} :
                t[1].id # t[2].id}
        \cup {t \in {<<r1, r2, r3>> : r1 \in MatcherRecords, r2 \in MatcherRecords,
                                      r3 \in {r \in MatcherRecords : Len(r.embeddings) = 1}} :
                t[1].id # t[2].id /\ t[1].id # t[3].id /\ t[2].id # t[3].id}

similarity(a, b) ==
    100 - 20 * (IF a.at >= b.at THEN a.at - b.at ELSE b.at - a.at)

RECURSIVE LexLess(_, _)
LexLess(a, b) ==
    IF b = <<>> THEN FALSE
    ELSE IF a = <<>> THEN TRUE
    ELSE IF Head(a) # Head(b) THEN Head(a) < Head(b)
    ELSE LexLess(Tail(a), Tail(b))

FirstSimilarity(q, embeddings) ==
    similarity(q, embeddings[1])

\* The maximum similarity between the query and the embeddings of a person.
RECURSIVE MaxSimilarity(_, _)
MaxSimilarity(q, embeddings) ==
    IF Len(embeddings) = 1
        THEN similarity(q, embeddings[1])
        ELSE LET first == similarity(q, Head(embeddings))
                 rest == MaxSimilarity(q, Tail(embeddings))
             IN  IF first >= rest THEN first ELSE rest

BetterFirstWins(candidate, b) ==
    candidate.similarity > b.similarity

\* Tie-break: on equal similarity the lexicographically smaller id wins.
Better(candidate, b) ==
    \/ candidate.similarity > b.similarity
    \/ candidate.similarity = b.similarity /\ LexLess(candidate.id, b.id)

\* Track the global best across the persons.
Examine(b, record, q) ==
    LET candidate == [id |-> record.id,
                      similarity |-> MaxSimilarity(q, record.embeddings)]
    IN  IF b = <<>> \/ Better(candidate, b[1]) THEN <<candidate>> ELSE b

MeetsThreshold(sim) ==
    sim >= similarity_threshold

Decide(b) ==
    IF b # <<>> /\ MeetsThreshold(b[1].similarity) THEN b ELSE <<>>

RECURSIVE Scan(_, _, _, _)
Scan(q, s, i, b) ==
    IF i > Len(s) THEN b ELSE Scan(q, s, i + 1, Examine(b, s[i], q))

resolve(q, s) ==
    Decide(Scan(q, s, 1, <<>>))

LiveStore ==
    store

\* The records the resolve in progress iterates over: the snapshot it was
\* given.
View ==
    snap

ResolveStep ==
    /\ matcher = "running"
    /\ examined < Len(View)
    /\ best' = Examine(best, View[examined + 1], query)
    /\ examined' = examined + 1
    /\ UNCHANGED <<store, outcome, evicted, snap, query, matcher, resolved>>
    /\ UNCHANGED restOfStore

ResolveEnd ==
    /\ matcher = "running"
    /\ examined >= Len(View)
    /\ resolved' = Decide(best)
    /\ matcher' = "done"
    /\ UNCHANGED <<store, outcome, evicted, snap, query, examined, best>>
    /\ UNCHANGED restOfStore

\* Every query against every snapshot.
InitMatcher ==
    /\ AppInit
    /\ DiskInit
    /\ FamilyInit
    /\ ClientInit
    /\ store = <<>>
    /\ outcome = "none"
    /\ evicted = <<>>
    /\ snap \in Snapshots
    /\ query \in EmbeddingVector
    /\ examined = 0
    /\ best = <<>>
    /\ matcher = "running"
    /\ resolved = <<>>

NextMatcher ==
    \/ ResolveStep
    \/ ResolveEnd

SpecMatcher == InitMatcher /\ [][NextMatcher]_vars

----------------------------------------------------------------------------
(* PersonStore: enroll, addEmbedding, update, remove                       *)

max_embeddings_per_person == 2

StoreIds == {<<1>>, <<1, 2>>}

PersonNames == {"Ann", "Bea"}

\* Vectors a caller may pass: of the dimensionality of the store, or not.
AnyVector == [dim : {D, D + 1}, at : Points]

\* Enrollments a caller may pass: none, one or two vectors.
EnrollInputs ==
    {<<>>} \cup {<<e>> : e \in AnyVector}
        \cup {<<e, f>> : e \in AnyVector, f \in AnyVector}

IdsOf(s) == {s[i].id : i \in DOMAIN s}

IndexOf(s, id) == CHOOSE i \in DOMAIN s : s[i].id = id

ValidEmbedding(e) ==
    e.dim = D

AnyEnrollment(embeddings) ==
    \A i \in DOMAIN embeddings : ValidEmbedding(embeddings[i])

\* At least one embedding, every one of the dimensionality of the store.
ValidEnrollment(embeddings) ==
    /\ embeddings # <<>>
    /\ \A i \in DOMAIN embeddings : ValidEmbedding(embeddings[i])

EvictNewest(embeddings) ==
    SubSeq(embeddings, 1, Len(embeddings) - 1)

\* First in, first out.
EvictOldest(embeddings) ==
    Tail(embeddings)

\* enroll(name, relation, notes, embeddings) with the id it generates.
Enroll(id, name, embeddings) ==
    /\ id \notin IdsOf(store)
    /\ IF ValidEnrollment(embeddings)
         THEN /\ store' = Append(store, [id |-> id, name |-> name, embeddings |-> embeddings])
              /\ outcome' = "ok"
         ELSE /\ store' = store
              /\ outcome' = "InvalidInput"
    /\ evicted' = <<>>
    /\ UNCHANGED <<snap, query, examined, best, matcher, resolved>>
    /\ UNCHANGED restOfStore

AddEmbedding(id, e) ==
    /\ IF id \notin IdsOf(store)
         THEN /\ outcome' = "NotFound"
              /\ UNCHANGED <<store, evicted>>
         ELSE IF ~ValidEmbedding(e)
         THEN /\ outcome' = "InvalidInput"
              /\ UNCHANGED <<store, evicted>>
         ELSE LET i == IndexOf(store, id)
                  old == store[i].embeddings
                  full == Len(old) >= max_embeddings_per_person
                  kept == IF full THEN EvictOldest(old) ELSE old
              IN  /\ store' = [store EXCEPT ![i].embeddings = Append(kept, e)]
                  /\ evicted' = IF full THEN <<Head(old)>> ELSE <<>>
                  /\ outcome' = "ok"
    /\ UNCHANGED <<snap, query, examined, best, matcher, resolved>>
    /\ UNCHANGED restOfStore

Update(id, name) ==
    /\ IF id \notin IdsOf(store)
         THEN /\ outcome' = "NotFound"
              /\ store' = store
         ELSE /\ store' = [store EXCEPT ![IndexOf(store, id)].name = name]
              /\ outcome' = "ok"
    /\ evicted' = <<>>
    /\ UNCHANGED <<snap, query, examined, best, matcher, resolved>>
    /\ UNCHANGED restOfStore

Remove(id) ==
    /\ IF id \notin IdsOf(store)
         THEN /\ outcome' = "NotFound"
              /\ store' = store
         ELSE /\ store' = SelectSeq(store, LAMBDA r : r.id # id)
              /\ outcome' = "ok"
    /\ evicted' = <<>>
    /\ UNCHANGED <<snap, query, examined, best, matcher, resolved>>
    /\ UNCHANGED restOfStore

NextStore ==
    \/ \E id \in StoreIds : \E name \in PersonNames : \E embeddings \in EnrollInputs :
          Enroll(id, name, embeddings)
    \/ \E id \in StoreIds : \E e \in AnyVector : AddEmbedding(id, e)
    \/ \E id \in StoreIds : \E name \in PersonNames : Update(id, name)
    \/ \E id \in StoreIds : Remove(id)

SpecStore == Init /\ [][NextStore]_vars

----------------------------------------------------------------------------
(* A resolve in progress while the PersonStore is written                  *)

\* list(): a point-in-time copy of the store.
list(s) == s

\* resolve is called with a query and the snapshot list() returns.
ResolveStart(q) ==
    /\ matcher = "idle"
    /\ snap' = list(store)
    /\ query' = q
    /\ examined' = 0
    /\ best' = <<>>
    /\ matcher' = "running"
    /\ UNCHANGED <<store, outcome, evicted, resolved>>
    /\ UNCHANGED restOfStore

\* The vectors the writers pass while a resolve is in progress.
ConcurrentVectors == [dim : {D}, at : {0, 3}]

\* The stores a resolve may start from: empty, or one person.
ConcurrentStores ==
    {<<>>} \cup {<<[id |-> id, name |-> "Ann", embeddings |-> <<e>>]>> :
                    id \in StoreIds, e \in ConcurrentVectors}

InitConcurrent ==
    /\ AppInit
    /\ DiskInit
    /\ FamilyInit
    /\ ClientInit
    /\ store \in ConcurrentStores
    /\ outcome = "none"
    /\ evicted = <<>>
    /\ snap = <<>>
    /\ query = <<>>
    /\ examined = 0
    /\ best = <<>>
    /\ matcher = "idle"
    /\ resolved = <<>>

NextConcurrent ==
    \/ \E q \in EmbeddingVector : ResolveStart(q)
    \/ ResolveStep
    \/ ResolveEnd
    \/ matcher = "running" /\ \E id \in StoreIds : \E e \in ConcurrentVectors :
          Enroll(id, "Ann", <<e>>)
    \/ matcher = "running" /\ \E id \in StoreIds : \E e \in ConcurrentVectors :
          AddEmbedding(id, e)
    \/ matcher = "running" /\ \E id \in StoreIds : Update(id, "Bea")
    \/ matcher = "running" /\ \E id \in StoreIds : Remove(id)

SpecConcurrent == InitConcurrent /\ [][NextConcurrent]_vars

----------------------------------------------------------------------------
(* persist() and load() of the PersonStore, by the write-to-temp-then-     *)
(* rename discipline: persist() writes the snapshot record by record to a  *)
(* new file body and then renames it over the path; load() opens the body  *)
(* the path names and reads it record by record.  A load() runs beside the *)
(* persist() and the store operations of another process.                  *)

\* The file bodies a loader has open.
Open ==
    IF reader = "reading" THEN {opened} ELSE {}

\* A file body neither named by the path nor open in a loader.
Fresh ==
    CHOOSE i \in Inodes : i # file /\ i \notin Open

InPlaceFile(current, fresh) ==
    current

\* The body persist() writes to: a temporary file.
TempFile(current, fresh) ==
    fresh

IsPrefix(s, t) ==
    Len(s) <= Len(t) /\ SubSeq(t, 1, Len(s)) = s

\* A body that nothing in `held` refers to any more is gone.
Unlink(bodies, i, held) ==
    IF i \in held THEN bodies ELSE [bodies EXCEPT ![i] = <<>>]

storeRest == <<evicted, snap, query, examined, best, matcher, resolved>>

PersistBegin ==
    /\ temp = 0
    /\ LET t == TempFile(file, Fresh)
       IN  /\ temp' = t
           /\ inodes' = [inodes EXCEPT ![t] = <<>>]
    /\ pending' = list(store)
    /\ UNCHANGED <<file, reader, opened, loaded, committed, candidates>>
    /\ UNCHANGED <<store, outcome, storeRest>>
    /\ UNCHANGED restOfDisk

PersistWrite ==
    /\ temp # 0
    /\ Len(inodes[temp]) < Len(pending)
    /\ inodes' = [inodes EXCEPT ![temp] = Append(@, pending[Len(@) + 1])]
    /\ UNCHANGED <<file, temp, pending, reader, opened, loaded, committed, candidates>>
    /\ UNCHANGED <<store, outcome, storeRest>>
    /\ UNCHANGED restOfDisk

\* The backend fails before the rename: StorageUnavailable goes to the
\* caller, the in-memory store stays as it is.
PersistFail ==
    /\ temp # 0
    /\ temp' = 0
    /\ pending' = <<>>
    /\ outcome' = "StorageUnavailable"
    /\ inodes' = Unlink(inodes, temp, {file})
    /\ UNCHANGED <<file, reader, opened, loaded, committed, candidates>>
    /\ UNCHANGED <<store, storeRest>>
    /\ UNCHANGED restOfDisk

PersistRename ==
    /\ temp # 0
    /\ Len(inodes[temp]) = Len(pending)
    /\ file' = temp
    /\ temp' = 0
    /\ pending' = <<>>
    /\ outcome' = "ok"
    /\ committed' = pending
    /\ candidates' = IF reader = "reading" THEN candidates \cup {pending} ELSE candidates
    /\ inodes' = Unlink(inodes, file, {temp} \cup Open)
    /\ UNCHANGED <<reader, opened, loaded>>
    /\ UNCHANGED <<store, storeRest>>
    /\ UNCHANGED restOfDisk

LoadOpen ==
    /\ reader # "reading"
    /\ reader' = "reading"
    /\ opened' = file
    /\ loaded' = <<>>
    /\ candidates' = {committed}
    /\ UNCHANGED <<inodes, file, temp, pending, committed>>
    /\ UNCHANGED <<store, outcome, storeRest>>
    /\ UNCHANGED restOfDisk

LoadRead ==
    /\ reader = "reading"
    /\ Len(loaded) < Len(inodes[opened])
    /\ loaded' = Append(loaded, inodes[opened][Len(loaded) + 1])
    /\ UNCHANGED <<inodes, file, temp, pending, reader, opened, committed, candidates>>
    /\ UNCHANGED <<store, outcome, storeRest>>
    /\ UNCHANGED restOfDisk

LoadEnd ==
    /\ reader = "reading"
    /\ Len(loaded) >= Len(inodes[opened])
    /\ reader' = "done"
    /\ opened' = 0
    /\ inodes' = Unlink(inodes, opened, {file, temp})
    /\ UNCHANGED <<file, temp, pending, loaded, committed, candidates>>
    /\ UNCHANGED <<store, outcome, storeRest>>
    /\ UNCHANGED restOfDisk

\* The embedding the enrollments of this specification pass.
PersistVector == [dim |-> D, at |-> 0]

NextPersist ==
    \/ \E id \in StoreIds : Enroll(id, "Ann", <<PersistVector>>)
    \/ \E id \in StoreIds : Remove(id)
    \/ PersistBegin
    \/ PersistWrite
    \/ PersistFail
    \/ PersistRename
    \/ LoadOpen
    \/ LoadRead
    \/ LoadEnd

SpecPersist == Init /\ [][NextPersist]_vars

----------------------------------------------------------------------------
(* The family helpers of the web frontend (lib/firebase/examples.ts):      *)
(* addMemberToFamily and removeMemberFromFamily read the family document   *)
(* with getDocument, compute the new members array from what they read and *)
(* write it with updateDocument.  Each await is a step; callers are        *)
(* browser tabs or users working on the same document.                     *)

Users == {"u1", "u2", "u3"}

\* The members arrays without duplicates.
MemberLists ==
    {m \in {<<>>} \cup {<<u>> : u \in Users}
                \cup {<<u, v>> : u \in Users, v \in Users}
                \cup {<<u, v, w>> : u \in Users, v \in Users, w \in Users} :
        \A i \in DOMAIN m : \A j \in DOMAIN m : m[i] = m[j] => i = j}

\* The document a run starts from: missing, or one with such an array.
FamilyDocs ==
    {<<>>} \cup {<<[members |-> m]>> : m \in MemberLists}

Includes(members, userId) ==
    \E i \in DOMAIN members : members[i] = userId

ShouldAddAlways(doc, userId) ==
    doc # <<>>

\* if (family && !family.members.includes(userId))
ShouldAdd(doc, userId) ==
    doc # <<>> /\ ~Includes(doc[1].members, userId)

Quiet ==
    \A c \in Callers : calls[c].pc \in {"idle", "done"}

\* The two most recent of the completed calls.
LastTwo(s) ==
    IF Len(s) <= 2 THEN s ELSE SubSeq(s, Len(s) - 1, Len(s))

\* The call of caller c returns, with the document as `doc`.
Completes(c, doc, wrote) ==
    /\ calls' = [calls EXCEPT ![c].pc = "done", ![c].wrote = wrote]
    /\ added' = IF calls[c].op = "add" THEN added \cup {calls[c].user}
                                       ELSE added \ {calls[c].user}
    /\ history' = LastTwo(Append(history,
                     [op |-> calls[c].op, user |-> calls[c].user,
                      before |-> calls[c].before, after |-> doc, wrote |-> wrote]))

addMemberToFamily(c, userId) ==
    /\ calls[c].pc \in {"idle", "done"}
    /\ calls' = [calls EXCEPT ![c] = [op |-> "add", user |-> userId, pc |-> "getDocument",
                                      before |-> family, updatedMembers |-> <<>>,
                                      wrote |-> FALSE]]
    /\ UNCHANGED <<family, added, history>>
    /\ UNCHANGED restOfFamily

removeMemberFromFamily(c, userId) ==
    /\ calls[c].pc \in {"idle", "done"}
    /\ calls' = [calls EXCEPT ![c] = [op |-> "remove", user |-> userId, pc |-> "getDocument",
                                      before |-> family, updatedMembers |-> <<>>,
                                      wrote |-> FALSE]]
    /\ UNCHANGED <<family, added, history>>
    /\ UNCHANGED restOfFamily

\* await getDocument(...) resolves with the document as it is now, and the
\* helper decides whether and what to write.
getDocument(c) ==
    /\ calls[c].pc = "getDocument"
    /\ LET userId == calls[c].user
           writes == IF calls[c].op = "add" THEN ShouldAdd(family, userId)
                                            ELSE family # <<>>
       IN  IF writes
             THEN /\ calls' = [calls EXCEPT
                       ![c].pc = "updateDocument",
                       ![c].updatedMembers =
                           IF calls[c].op = "add"
                               THEN Append(family[1].members, userId)
                               ELSE SelectSeq(family[1].members, LAMBDA id : id # userId)]
                  /\ UNCHANGED <<added, history>>
             ELSE Completes(c, family, FALSE)
    /\ UNCHANGED family
    /\ UNCHANGED restOfFamily

\* await updateDocument(..., { members: updatedMembers }) resolves: the
\* members field of the document is replaced.
updateDocument(c) ==
    /\ calls[c].pc = "updateDocument"
    /\ family # <<>>
    /\ family' = <<[family[1] EXCEPT !.members = calls[c].updatedMembers]>>
    /\ Completes(c, family', TRUE)
    /\ UNCHANGED restOfFamily

InitFamily ==
    /\ AppInit
    /\ StoreInit
    /\ DiskInit
    /\ ClientInit
    /\ family \in FamilyDocs
    /\ calls = [c \in Callers |-> IdleCall]
    /\ added = {}
    /\ history = <<>>

\* Callers that add members, each at its own pace.
NextFamilyAdds ==
    \/ \E c \in Callers : \E userId \in Users : addMemberToFamily(c, userId)
    \/ \E c \in Callers : getDocument(c)
    \/ \E c \in Callers : updateDocument(c)

SpecFamilyAdds == InitFamily /\ [][NextFamilyAdds]_vars

\* Calls made one after the other: a call starts when none is in progress.
NextFamilySequential ==
    \/ Quiet /\ \E c \in Callers : \E userId \in Users : addMemberToFamily(c, userId)
    \/ Quiet /\ \E c \in Callers : \E userId \in Users : removeMemberFromFamily(c, userId)
    \/ \E c \in Callers : getDocument(c)
    \/ \E c \in Callers : updateDocument(c)

SpecFamilySequential == InitFamily /\ [][NextFamilySequential]_vars

----------------------------------------------------------------------------
(* FamilyMembersClient of the web frontend: its effect calls               *)
(* getAllFamilyMembers() and, when the promise settles, sets the state in  *)
(* try / catch / finally.  The effect runs after the first render and      *)
(* again whenever the parent passes another onLoaded function.  onLoaded,  *)
(* when given, returns normally.                                           *)

\* What getAllFamilyMembers() can resolve with: the ids of the documents
\* of the family collection.
MemberDocs == {<<>>, <<"m1">>, <<"m1", "m2">>}

ERROR_MESSAGE == "Failed to load family members. Please try again later."

Settled(f) == fetches[f].state \in {"resolved", "rejected"}

\* The effect calls fetchFamilyMembers(), which suspends at the await.
StartFetch(f) ==
    /\ fetches[f].state = "none"
    /\ \A g \in FetchIds : g < f => fetches[g].state # "none"
    /\ f = 1 \/ onLoaded
    /\ fetches' = [fetches EXCEPT ![f].state = "pending"]
    /\ UNCHANGED <<loading, error, familyMembers, onLoaded, loadedCalls>>
    /\ UNCHANGED restOfClient

LoadingAfterTryOnly(fulfilled) ==
    ~fulfilled

\* finally { setLoading(false) }
LoadingAfter(fulfilled) ==
    FALSE

\* The promise resolves: the try block runs to its end, then finally.
FetchResolves(f, members) ==
    /\ fetches[f].state = "pending"
    /\ fetches' = [fetches EXCEPT ![f] = [state |-> "resolved", members |-> members]]
    /\ familyMembers' = members
    /\ loadedCalls' = IF onLoaded THEN Append(loadedCalls, members) ELSE loadedCalls
    /\ loading' = LoadingAfter(TRUE)
    /\ UNCHANGED <<error, onLoaded>>
    /\ UNCHANGED restOfClient

\* The promise rejects: the catch block, then finally.
FetchRejects(f) ==
    /\ fetches[f].state = "pending"
    /\ fetches' = [fetches EXCEPT ![f].state = "rejected"]
    /\ error' = <<ERROR_MESSAGE>>
    /\ loading' = LoadingAfter(FALSE)
    /\ UNCHANGED <<familyMembers, onLoaded, loadedCalls>>
    /\ UNCHANGED restOfClient

\* What the component returns: the spinner, the error box or the list.
Rendered ==
    IF loading THEN "spinner"
    ELSE IF error # <<>> THEN "error"
    ELSE "list"

InitClient ==
    /\ AppInit
    /\ StoreInit
    /\ DiskInit
    /\ FamilyInit
    /\ ClientState
    /\ onLoaded \in BOOLEAN

NextClient ==
    \/ \E f \in FetchIds : StartFetch(f)
    \/ \E f \in FetchIds : \E members \in MemberDocs : FetchResolves(f, members)
    \/ \E f \in FetchIds : FetchRejects(f)

SpecClient == InitClient /\ [][NextClient]_vars

----------------------------------------------------------------------------
(* Properties of the recognition loop *)

Ended(c) == c \in DOMAIN cycles /\ cycles[c] \in EndPoints

\* The name was never recorded, or its record is more than COOLDOWN old.
Eligible(name) ==
    name \notin DOMAIN lastDetectionTime \/ now - lastDetectionTime[name] > COOLDOWN

\* The responses decoded by this step (at most one), as logged: l.head is
\* the person the cycle looked at, l.first the first person of the response
\* (<<>> when it has none), l.later whether it was not accepted while a later
\* person of it would have passed.
Decoded == log' \ log

Similarity(l) == l.head[1].similarity

NameOf(l) == l.head[1].name

\* This step calls setDetectedPerson for `name` and records `now` for it.
Announces(name) ==
    /\ \E l \in log' \ log : l.shown /\ NameOf(l) = name /\ l.at = now
    /\ name \in DOMAIN lastDetectionTime'
    /\ lastDetectionTime'[name] = now

Silent ==
    /\ emitted' = emitted
    /\ lastDetectionTime' = lastDetectionTime
    /\ detectedPerson' = detectedPerson

\* C1: a detection above the threshold is announced, and its time recorded,
\* exactly when its name was never recorded or was recorded more than
\* COOLDOWN ms ago; otherwise nothing is announced or recorded.  A detection
\* exactly COOLDOWN ms after the record is not announced.
C1_CooldownIff ==
    [][\A l \in Decoded :
          (l.head # <<>> /\ Similarity(l) > SIM_THRESHOLD)
            => IF Eligible(NameOf(l))
                 THEN Announces(NameOf(l))
                 ELSE Silent]_vars

\* A detection of a recorded name exactly COOLDOWN ms after its announcement
\* was suppressed, and the name had been announced when it had no record.
C1_Witness ==
    \E l \in log : \E e \in emitted :
        /\ ~l.shown
        /\ l.head # <<>>
        /\ Similarity(l) > SIM_THRESHOLD
        /\ NameOf(l) = NameOf(e)
        /\ l.at - e.at = COOLDOWN

\* C2: the check and the record are one step: in the state right after a
\* call observed "allowed" for a name, the check refuses that name, so a
\* second call already in flight that resolves to the same name at that
\* moment is refused.
C2_AtomicCheckAndSet ==
    [][\A name \in Names :
          (\E l \in log' \ log : l.shown /\ NameOf(l) = name)
            => /\ name \in DOMAIN lastDetectionTime'
               /\ now' - lastDetectionTime'[name] <= COOLDOWN]_vars

\* Two calls overlapped and resolved to the same name within one window:
\* the call started later was allowed while the one started earlier was
\* still in flight, and the earlier one was refused afterwards.
C2_Witness ==
    \E l \in log : \E e \in emitted :
        /\ ~l.shown
        /\ l.head # <<>>
        /\ Similarity(l) > SIM_THRESHOLD
        /\ NameOf(l) = NameOf(e)
        /\ l.cycle < e.cycle
        /\ l.at >= e.at
        /\ l.at - e.at <= COOLDOWN

\* C3: any two announcements of one name are more than COOLDOWN ms apart.
C3_OncePerWindow ==
    \A e1 \in emitted : \A e2 \in emitted :
        (e1 # e2 /\ NameOf(e1) = NameOf(e2))
            => (e1.at - e2.at > COOLDOWN \/ e2.at - e1.at > COOLDOWN)

\* One name was announced twice, with suppressed detections in between.
C3_Witness ==
    \E e1 \in emitted : \E e2 \in emitted : \E l \in log :
        /\ NameOf(e1) = NameOf(e2)
        /\ e1.at < e2.at
        /\ ~l.shown /\ l.head # <<>>
        /\ NameOf(l) = NameOf(e1)
        /\ Similarity(l) > SIM_THRESHOLD
        /\ e1.at < l.at /\ l.at < e2.at

\* C4: at most one call of captureAndSendFrame is in flight.
C4_OneInFlight ==
    Cardinality(InFlight) <= 1

\* C5: once the polling effect is cleaned up, nothing is announced and the
\* cooldown map and the detected person no longer change.
C5_StoppedIsSilent ==
    [][session = "Stopped" => Silent]_vars

C7_ArrivalOrder ==
    \A c1 \in DOMAIN cycles : \A c2 \in DOMAIN cycles :
        (c1 < c2 /\ Ended(c2)) => Ended(c1)

\* C8: no call of captureAndSendFrame ends with a rejected promise.
C8_NothingThrown ==
    \A c \in DOMAIN cycles : cycles[c] # "rejected"

\* C9: a response without persons, or whose first person is below the
\* threshold, announces nothing and leaves the cooldown map as it was; so
\* does a response that cannot be decoded or decodes to null.
C9_NoMatchIsSilent ==
    [][/\ \A l \in Decoded :
            (l.head = <<>> \/ Similarity(l) < SIM_THRESHOLD) => Silent
       /\ \A c \in DOMAIN cycles :
            (cycles[c] = "json" /\ cycles'[c] = "rejected") => Silent]_vars

\* With a name on record, a response without persons and a response below
\* the threshold were both processed.
C9_Witness ==
    /\ lastDetectionTime # <<>>
    /\ \E l \in log : \E e \in emitted : l.head = <<>> /\ l.at >= e.at /\ l.cycle > e.cycle
    /\ \E l \in log : \E e \in emitted :
          /\ l.head # <<>>
          /\ Similarity(l) < SIM_THRESHOLD
          /\ l.at >= e.at /\ l.cycle > e.cycle

\* C10: the session moves Idle -> Running -> Stopped only; no tick is fired
\* before it runs nor after it stopped.
C10_Lifecycle ==
    [][/\ session = "Idle" => session' \in {"Idle", "Running"}
       /\ session = "Running" => session' \in {"Running", "Stopped"}
       /\ session = "Stopped" => session' = "Stopped"
       /\ session # "Running" => Len(cycles') = Len(cycles)]_vars

\* The session is stopped and a full interval has passed since with ticks
\* still left to fire.
C10_Witness ==
    /\ session = "Stopped"
    /\ sinceFire >= CAPTURE_INTERVAL
    /\ Len(cycles) \in 1..(MaxTicks - 1)
    /\ InFlight = {}

C12_StopIdempotent ==
    [][(session = "Stopped" /\ pollingEffect' = "cleanupAgain"
            /\ pollingEffect # "cleanupAgain")
          => UNCHANGED <<session, cameraRef, now, sinceFire, cycles,
                         lastDetectionTime, detectedPerson, log, intervals>>]_vars

\* The cleanup was called again on a stopped session that has a name on
\* record, a detected person and a call still in flight.
C12_Witness ==
    /\ session = "Stopped"
    /\ pollingEffect = "cleanupAgain"
    /\ lastDetectionTime # <<>>
    /\ detectedPerson # <<>>
    /\ InFlight # {}

\* A logged detection of a person above the threshold.
Match(l) == l.head # <<>> /\ Similarity(l) > SIM_THRESHOLD

\* C13: the first detection of a person above the threshold is announced; a
\* detection of the same person 9 s after an announcement is not; one 31 s
\* after an announcement, with no announcement of that person in between,
\* is announced again.
C13_Scenario ==
    \A b \in log :
        Match(b) =>
          /\ (\A e \in emitted : (NameOf(e) = NameOf(b) /\ e # b) => e.at > b.at)
                => b.shown
          /\ \A a \in emitted :
                NameOf(a) = NameOf(b) =>
                  /\ b.at - a.at = 9000 => ~b.shown
                  /\ (/\ b.at - a.at = 31000
                      /\ \A e \in emitted :
                            (NameOf(e) = NameOf(b) /\ e # b) => (e.at <= a.at \/ e.at > b.at))
                        => b.shown

\* One person was detected above the threshold at t0, at t0 + 9 s and at
\* t0 + 31 s: announced, not announced, announced.
C13_Witness ==
    \E a \in log : \E b \in log : \E c \in log :
        /\ Match(a) /\ Match(b) /\ Match(c)
        /\ NameOf(a) = NameOf(b) /\ NameOf(b) = NameOf(c)
        /\ a.cycle < b.cycle /\ b.cycle < c.cycle
        /\ b.at = a.at + 9000 /\ c.at = a.at + 31000
        /\ a.shown /\ ~b.shown /\ c.shown

\* C14: at every moment, canShowPerson allows every name that has no entry
\* in lastDetectionTime.
C14_AbsentIsEligible ==
    \A name \in Names :
        name \notin DOMAIN lastDetectionTime => canShowPerson(name)

\* More than COOLDOWN ms after construction, with another name on record, a
\* name that had no entry was detected above the threshold and announced.
C14_Witness ==
    \E e \in emitted : \E o \in emitted :
        /\ NameOf(o) # NameOf(e)
        /\ o.at < e.at
        /\ e.at - StartTime > COOLDOWN
        /\ \A l \in emitted : NameOf(l) = NameOf(e) => l = e

\* C15: a call made while cameraRef.current is not set returns at once, and
\* a call whose takePictureAsync yields nothing returns there: in both cases
\* nothing is announced, the cooldown map, the detected person and the
\* session stay as they were, and the call never goes on to the detect
\* request.
C15_SkippedTick ==
    [][\A c \in DOMAIN cycles' :
          /\ (c \notin DOMAIN cycles /\ ~cameraRef)
                => cycles'[c] = "noCamera" /\ Silent /\ log' = log /\ session' = session
          /\ TakePictureDone(c, FALSE)
                => cycles'[c] = "noPhoto" /\ Silent /\ log' = log /\ session' = session
          /\ (c \in DOMAIN cycles /\ cycles[c] \in {"noCamera", "noPhoto"})
                => cycles'[c] = cycles[c]]_vars

\* While the session runs with a name on record, the first call found no
\* camera and a call made after an announcement got no photo.
C15_Witness ==
    /\ session = "Running"
    /\ cycles # <<>>
    /\ cycles[1] = "noCamera"
    /\ \E c \in DOMAIN cycles : \E e \in emitted :
          cycles[c] = "noPhoto" /\ e.cycle < c /\ NameOf(e) \in DOMAIN lastDetectionTime

Range(s) == {s[i] : i \in DOMAIN s}

\* The greatest element of a non-empty set of integers.
Greatest(S) == CHOOSE m \in S : \A x \in S : m >= x

\* The maximum similarity of a record to the query of the resolve, and the
\* greatest such maximum over the snapshot.
PersonBest(r) == Greatest({similarity(query, e) : e \in Range(r.embeddings)})

GlobalBest == Greatest({PersonBest(r) : r \in Range(snap)})

\* What the client shows of a match (line 206 of index.tsx).
Surfaced ==
    IF resolved # <<>> /\ AboveThreshold(resolved[1].similarity) THEN resolved ELSE <<>>

\* C16: resolve returns a person whose maximum similarity over all of its
\* embeddings is the greatest of the snapshot, with that similarity, when
\* it is at least the threshold, and None otherwise; one embedding at the
\* threshold is enough, and the person the client shows is that person.
C16_GlobalBest ==
    matcher = "done" =>
        IF snap # <<>> /\ GlobalBest >= similarity_threshold
            THEN /\ resolved # <<>>
                 /\ resolved[1].similarity = GlobalBest
                 /\ \E r \in Range(snap) :
                        r.id = resolved[1].id /\ PersonBest(r) = GlobalBest
                 /\ Surfaced # <<>> => Surfaced = resolved
            ELSE resolved = <<>> /\ Surfaced = <<>>

\* A person matched through its second embedding while its first is below
\* the threshold, ahead of another person who is above the threshold too.
C16_Witness ==
    /\ matcher = "done"
    /\ Surfaced # <<>>
    /\ \E r \in Range(snap) : \E o \in Range(snap) :
          /\ r.id = resolved[1].id
          /\ Len(r.embeddings) = 2
          /\ similarity(query, r.embeddings[1]) < similarity_threshold
          /\ similarity(query, r.embeddings[2]) = GlobalBest
          /\ o.id # r.id
          /\ PersonBest(o) >= similarity_threshold
          /\ PersonBest(o) < GlobalBest

Orders(s) ==
    {t \in [DOMAIN s -> Range(s)] : \A i \in DOMAIN s : \A j \in DOMAIN s : t[i] = t[j] => i = j}

\* C17: among the persons that reach the greatest similarity, resolve
\* returns the one with the lexicographically smallest id, whatever the
\* order of the records, and resolving again gives the same result.
C17_TieBreak ==
    matcher = "done" =>
        /\ resolved # <<>> =>
              \A r \in Range(snap) :
                  PersonBest(r) = resolved[1].similarity => ~LexLess(r.id, resolved[1].id)
        /\ \A t \in Orders(snap) : resolve(query, t) = resolved

\* Three persons tie; the one returned is stored last and
\* its id is a proper prefix of another tied id.
C17_Witness ==
    /\ matcher = "done"
    /\ resolved # <<>>
    /\ Len(snap) = 3
    /\ snap[3].id = resolved[1].id
    /\ \A r \in Range(snap) : PersonBest(r) = resolved[1].similarity
    /\ \E r \in Range(snap) : r.id = resolved[1].id \o <<2>>

\* The last n elements of a sequence.
LastN(s, n) == SubSeq(s, Len(s) - n + 1, Len(s))

Smaller(a, b) == IF a <= b THEN a ELSE b

\* C18: the embeddings of a record change only by addEmbedding, which leaves
\* the record with one embedding more, up to max_embeddings_per_person, the
\* new one last and before it the newest of the old ones in their order, so
\* at the maximum the oldest is the one dropped; and every record holds
\* between 1 and max_embeddings_per_person embeddings.
C18_FifoEviction ==
    [][/\ \A r \in Range(store') : Len(r.embeddings) \in 1..max_embeddings_per_person
       /\ \A id \in IdsOf(store) \cap IdsOf(store') :
            LET old == store[IndexOf(store, id)].embeddings
                new == store'[IndexOf(store', id)].embeddings
                n == Smaller(Len(old) + 1, max_embeddings_per_person)
            IN  new # old =>
                  /\ Len(new) = n
                  /\ AddEmbedding(id, new[n])
                  /\ SubSeq(new, 1, n - 1) = LastN(old, n - 1)]_vars

\* A record at its maximum, filled with embeddings that differ from the one
\* added last, has dropped its oldest embedding.
C18_Witness ==
    /\ outcome = "ok"
    /\ evicted # <<>>
    /\ \E r \in Range(store) :
          /\ Len(r.embeddings) = max_embeddings_per_person
          /\ \A i \in 1..(Len(r.embeddings) - 1) :
                r.embeddings[i] # r.embeddings[Len(r.embeddings)]
          /\ evicted[1] # r.embeddings[1]

\* C19: an operation that ends in InvalidInput leaves the store as it was,
\* and no record of the store has zero embeddings.
C19_InvalidInputNoChange ==
    [][/\ outcome' = "InvalidInput" => store' = store
       /\ \A r \in Range(store') : r.embeddings # <<>>]_vars

\* An operation on a store of two persons ended in InvalidInput.
C19_Witness ==
    /\ outcome = "InvalidInput"
    /\ Len(store) = 2
    /\ \E r \in Range(store) : Len(r.embeddings) = max_embeddings_per_person

\* C20: while the store is written, what a resolve has seen so far is what
\* the snapshot taken at its start holds, and what it returns is the result
\* for that snapshot: never a person enrolled since, nor a record as changed
\* since.
C20_SnapshotIsolation ==
    /\ matcher # "idle" =>
          /\ examined <= Len(snap)
          /\ best = Scan(query, SubSeq(snap, 1, examined), 1, <<>>)
    /\ matcher = "done" =>
          /\ resolved = resolve(query, snap)
          /\ resolved # <<>> => resolved[1].id \in IdsOf(snap)

\* A resolve ended after a person was enrolled and a record of its snapshot
\* was changed; against the store as it is now the result would differ.
C20_Witness ==
    /\ matcher = "done"
    /\ snap # <<>>
    /\ IdsOf(store) \ IdsOf(snap) # {}
    /\ \E r \in Range(snap) : \E w \in Range(store) :
          r.id = w.id /\ r.embeddings # w.embeddings /\ r.name # w.name
    /\ resolved # resolve(query, store)

\* The time of the last announcement of a name that was announced.
LastAnnounced(name) == Greatest({e.at : e \in {a \in emitted : NameOf(a) = name}})

\* C22: the entry of a name in the cooldown map is the time of its last
\* announcement, whatever was detected and suppressed since; so a detection
\* above the threshold, more than COOLDOWN ms after every announcement of
\* that name so far, is announced.
C22_WindowFromAnnouncement ==
    /\ \A e \in emitted : NameOf(e) \in DOMAIN lastDetectionTime
    /\ \A name \in DOMAIN lastDetectionTime :
          /\ \E e \in emitted : NameOf(e) = name
          /\ lastDetectionTime[name] = LastAnnounced(name)
    /\ \A b \in log :
          Match(b) =>
              LET prior == {e \in emitted :
                              NameOf(e) = NameOf(b) /\ e # b /\ e.at <= b.at}
              IN  (prior # {} /\ \A e \in prior : b.at - e.at > COOLDOWN) => b.shown

\* A person was announced, detected again and suppressed within the window,
\* and announced again more than COOLDOWN ms after the first announcement
\* but less than that after the suppressed detection.
C22_Witness ==
    \E e1 \in emitted : \E e2 \in emitted : \E l \in log :
        /\ NameOf(e1) = NameOf(e2)
        /\ Match(l) /\ ~l.shown /\ NameOf(l) = NameOf(e1)
        /\ e1.cycle < l.cycle /\ l.cycle < e2.cycle
        /\ e2.at - e1.at > COOLDOWN
        /\ e2.at - l.at <= COOLDOWN
        /\ lastDetectionTime[NameOf(e1)] = e2.at

\* C25: a cycle looks at the first person of the response only: what it
\* logs and announces is that person, at most one per cycle; when the first
\* person is below the threshold or inside its cooldown, nothing is
\* announced and no cooldown entry or card state changes, also when a later
\* person is above the threshold and out of its cooldown.
C25_FirstPersonOnly ==
    [][\A l \in Decoded :
          /\ l.head = l.first
          /\ \A k \in log : k.cycle # l.cycle
          /\ emitted' \ emitted \subseteq {l}
          /\ l.shown => Len(l.first) = 1
          /\ (l.first # <<>>
                /\ ~(l.first[1].similarity > SIM_THRESHOLD /\ Eligible(l.first[1].name)))
                => /\ ~l.shown
                   /\ Silent
                   /\ UNCHANGED cardVars]_vars

\* Two responses were processed without an announcement while a later
\* person of each would have passed: one whose first person was below the
\* threshold, one whose first person was inside its cooldown.
C25_Witness ==
    /\ \E l \in log : l.later /\ ~l.shown /\ l.head # <<>> /\ ~Match(l)
    /\ \E l \in log : l.later /\ ~l.shown /\ Match(l)

\* C26: the cooldown is kept per name: an announcement of one person writes
\* the entry of that name only and leaves the eligibility of every other
\* name as it was; a detection above the threshold is announced whenever
\* its own name was not announced in the last COOLDOWN ms, whoever else was.
C26_PerPersonCooldown ==
    [][\A l \in Decoded :
          /\ l.shown =>
               \A q \in Names \ {NameOf(l)} :
                  /\ (q \in DOMAIN lastDetectionTime') = (q \in DOMAIN lastDetectionTime)
                  /\ q \in DOMAIN lastDetectionTime
                        => lastDetectionTime'[q] = lastDetectionTime[q]
                  /\ Eligible(q)' = Eligible(q)
          /\ (Match(l) /\ \A e \in emitted :
                             NameOf(e) = NameOf(l) => now - e.at > COOLDOWN)
                => l.shown]_vars

\* Two different persons were announced at the same instant, and each has
\* its own entry.
C26_Witness ==
    \E e1 \in emitted : \E e2 \in emitted :
        /\ NameOf(e1) # NameOf(e2)
        /\ e1.at = e2.at
        /\ e1.cycle < e2.cycle
        /\ lastDetectionTime[NameOf(e1)] = e1.at
        /\ lastDetectionTime[NameOf(e2)] = e2.at

C29_UnknownProfile ==
    [][/\ \A l \in Decoded :
            (l.shown /\ session = "Running")
                => /\ slideUp' = 1
                   /\ isCardVisible'
                   /\ lastDetectionTime'[NameOf(l)] = now
                   /\ CardRendered' = (NameOf(l) \in profileData)
       /\ CardRendered' =>
            (detectedPerson' # <<>> /\ detectedPerson'[1].name \in profileData)]_vars

\* A person whose name is no key of profileData was accepted: the sheet is
\* up, its cooldown runs and no card is rendered.
C29_Witness ==
    /\ detectedPerson # <<>>
    /\ detectedPerson[1].name \notin profileData
    /\ detectedPerson[1].name \in DOMAIN lastDetectionTime
    /\ slideUp = 1
    /\ isCardVisible
    /\ ~CardRendered

\* C21: the path always names a completely persisted store, also after a
\* persist() that failed midway; what a load() has read is the beginning
\* of, and what it returns is, the store that was persisted when it opened
\* the file or one persisted completely while it read.
C21_PersistAtomic ==
    /\ inodes[file] = committed
    /\ reader = "reading" => \E s \in candidates : IsPrefix(loaded, s)
    /\ reader = "done" => loaded \in candidates

\* A load() returned the store persisted before it, of at least one record,
\* although another store was persisted completely while it read and a
\* later persist() of a different store failed midway.
C21_Witness ==
    /\ reader = "done"
    /\ loaded # <<>>
    /\ loaded # committed
    /\ Cardinality(candidates) = 2
    /\ outcome = "StorageUnavailable"
    /\ store # committed

\* C23: once every addMemberToFamily call on an existing family has
\* completed, every user id that was added is in its members.
C23_NoLostAdd ==
    (Quiet /\ family # <<>>) => \A u \in added : Includes(family[1].members, u)

NoDuplicates(members) ==
    \A i \in DOMAIN members : \A j \in DOMAIN members :
        members[i] = members[j] => i = j

\* C24: run one after the other from an array without duplicates, the
\* family helpers keep members without duplicates; addMemberToFamily
\* writes nothing when the document is missing or the id is already a
\* member, and otherwise writes the members it found with the id appended
\* last; a second add of the same id changes nothing.
C24_AddIsIdempotent ==
    /\ family # <<>> => NoDuplicates(family[1].members)
    /\ \A i \in DOMAIN history :
          LET h == history[i]
          IN  h.op = "add" =>
                IF h.before = <<>> \/ Includes(h.before[1].members, h.user)
                    THEN ~h.wrote /\ h.after = h.before
                    ELSE /\ h.wrote
                         /\ h.after = <<[members |-> Append(h.before[1].members, h.user)]>>
    /\ (Len(history) = 2 /\ history[1].op = "add" /\ history[2].op = "add"
           /\ history[1].user = history[2].user)
          => history[2].after = history[1].after

\* An id was added to a family of two other members, added again and then
\* removed, all by calls that completed.
C24_Witness ==
    /\ Quiet
    /\ Len(history) = 2
    /\ history[1].op = "add" /\ ~history[1].wrote
    /\ history[1].before # <<>>
    /\ Len(history[1].before[1].members) = 3
    /\ history[2].op = "remove" /\ history[2].user = history[1].user
    /\ history[2].wrote
    /\ family = history[2].after
    /\ Len(family[1].members) = 2

====
